---- MODULE Spec2Model ----
(***************************************************************************)
(* The connection / matchmaking / round state machine of the rock-paper-   *)
(* scissors WebSocket server (src/unnamed/part_001; src/unnamed/part_000   *)
(* is the older variant of the same handlers without accounts and ready    *)
(* votes).                                                                 *)
(*                                                                         *)
(* One action per inbound event.  Node runs every handler to its first     *)
(* await without interleaving; the only awaits are the calls into the      *)
(* AuthManager (register / login / verifyToken / logout), which touch no   *)
(* in-memory table before they resume, so an authenticated join and a      *)
(* logout are modelled by the step that resumes after the await.           *)
(*                                                                         *)
(* Not modelled: playerModes and authenticatedUsers (written, never read), *)
(* the ranking broadcast (asynchronous read of the score table), the text  *)
(* of the messages, and a handler that resumes from its await after its    *)
(* connection has closed or after another logout of the same connection    *)
(* has cleared the token.  Display names are truthy strings.               *)
(***************************************************************************)
EXTENDS Integers, Sequences, FiniteSets, TLC

\* ------------------------------------------------------------------ bounds
NumConns == 3   \* connections accepted
NumPair == 2    \* connections that act in SpecPair
MaxGames == 1   \* private games created
MaxEvents == 4  \* events handled in Spec

\* ------------------------------------------------------------- vocabulary
null == "null"
Names == {"alice", "bob", "IA"}
Conns == 1..NumConns
\* The names a client asks for: every client has a name of its own, and the
\* last client also asks for the first client's name.
ClientNames(c) ==
  IF c = 1 THEN {"alice"}
  ELSE IF c = 2 THEN {"bob"}
  ELSE {"IA", "alice"}
\* The names that have, or may open, an account (users table).
Accounts == {"alice"}
Choices == {"pierre", "feuille", "ciseaux"}
InvalidChoice == "lezard"
GameIds == 0..MaxGames
NoBroadcast == [count |-> -1, to |-> {}]

VARIABLES
  players,          \* Map name -> [ws, choice]
  quickMatchQueue,  \* array of names
  privateGames,     \* Map gameId -> [host, guest]
  matches,          \* Map name -> opponent name
  playerReadyState, \* Map name -> boolean
  currentPlayer,    \* per connection: the closure variable currentPlayer
  currentToken,     \* per connection: the closure variable currentToken
  connState,        \* per connection: "open" or "closed"
  users,            \* the accounts of the users table (AuthManager)
  nextGameId,       \* the next fresh lobby token
  crashed,          \* the process died on an unhandled rejection
  sent,             \* the messages the last event sent, in order
  onlineCount,      \* the online_count broadcast of the last event
  scoreUpdates,     \* the score increments the last event requested
  lastEvent,        \* the last event: [type, conn, name or token asked for]
  fresh,            \* names whose pending choice was submitted in their
                    \* current match, after its last resolution
  joinedGames,      \* the lobby tokens a join_private_game has passed the
                    \* checks of and paired
  steps             \* the number of events handled (counted in Spec only)

vars == <<players, quickMatchQueue, privateGames, matches, playerReadyState,
          currentPlayer, currentToken, connState, users, nextGameId,
          crashed, sent, onlineCount, scoreUpdates, lastEvent, fresh,
          joinedGames, steps>>

\* ------------------------------------------------------------ Map helpers
EmptyMap == [k \in {} |-> null]

MapHas(m, k) == k \in DOMAIN m

MapGet(m, k) == IF k \in DOMAIN m THEN m[k] ELSE null

MapSet(m, k, v) == [x \in (DOMAIN m) \cup {k} |-> IF x = k THEN v ELSE m[x]]

MapDelete(m, k) == [x \in (DOMAIN m) \ {k} |-> m[x]]

\* ---------------------------------------------------------------- messages
Msg(ws, type) ==
  [to |-> ws, type |-> type, result |-> "-", playerChoice |-> "-",
   opponentChoice |-> "-", opponentName |-> "-", gameId |-> 0]

ErrorMsg(ws, kind) == [Msg(ws, "error") EXCEPT !.result = kind]

GameJoinedMsg(ws, opponent) ==
  [Msg(ws, "game_joined") EXCEPT !.opponentName = opponent]

GameResultMsg(ws, result, playerChoice, opponentChoice, opponentName) ==
  [Msg(ws, "game_result") EXCEPT !.result = result,
                                 !.playerChoice = playerChoice,
                                 !.opponentChoice = opponentChoice,
                                 !.opponentName = opponentName]

AiResultMsg(ws, result, playerChoice, aiChoice) ==
  [Msg(ws, "ai_result") EXCEPT !.result = result,
                               !.playerChoice = playerChoice,
                               !.opponentChoice = aiChoice]

Event(type, c, n) == [type |-> type, conn |-> c, name |-> n]

\* ------------------------------------------------------------ pure helpers
\* getResult with the scissors/paper case written the wrong way round.
getResult_PaperCutsScissors(choice1, choice2) ==
  IF choice1 = choice2 THEN "draw"
  ELSE IF \/ (choice1 = "pierre" /\ choice2 = "ciseaux")
          \/ (choice1 = "feuille" /\ choice2 = "pierre")
          \/ (choice1 = "feuille" /\ choice2 = "ciseaux")
       THEN "player1"
       ELSE "player2"

getResult(choice1, choice2) ==
  IF choice1 = choice2 THEN "draw"
  ELSE IF \/ (choice1 = "pierre" /\ choice2 = "ciseaux")
          \/ (choice1 = "feuille" /\ choice2 = "pierre")
          \/ (choice1 = "ciseaux" /\ choice2 = "feuille")
       THEN "player1"
       ELSE "player2"

removePlayerFromMatch(m, player) ==
  LET opponent == MapGet(m, player) IN
  IF opponent # null
  THEN IF opponent # "IA"
       THEN MapDelete(MapDelete(m, player), opponent)
       ELSE MapDelete(m, player)
  ELSE m

\* A broadcast whose count is the registry size before the event.
broadcastOnlineCount_Stale(pl) ==
  [count |-> Cardinality(DOMAIN players), to |-> DOMAIN pl]

broadcastOnlineCount(pl) == [count |-> Cardinality(DOMAIN pl), to |-> DOMAIN pl]

RECURSIVE RemoveFirst(_, _)
RemoveFirst(q, x) ==
  IF q = <<>> THEN <<>>
  ELSE IF Head(q) = x THEN Tail(q)
  ELSE <<Head(q)>> \o RemoveFirst(Tail(q), x)

InQueue(q, x) == \E i \in 1..Len(q) : q[i] = x

RemoveHostedGames(games, host) ==
  [g \in {x \in DOMAIN games : games[x].host # host} |-> games[g]]

\* The pending choices still count as fresh only while they are pending.
Pending(pl) == {n \in DOMAIN pl : pl[n].choice # null}

\* The opponent_left notice of logout, leave_game and close: sent when the
\* opponent is a registered participant other than the "IA" sentinel.
NotifyOpponentLeft(pl, m, player) ==
  LET opponent == MapGet(m, player) IN
  IF opponent # null /\ opponent # "IA" /\ MapHas(pl, opponent)
  THEN <<Msg(pl[opponent].ws, "opponent_left")>>
  ELSE <<>>

\* A drain that pairs two entries as soon as one of them is registered.
RECURSIVE matchQuickPlayers_PairsAbsent(_)
matchQuickPlayers_PairsAbsent(st) ==
  IF Len(st.queue) < 2 THEN st
  ELSE LET player1 == st.queue[1]
           player2 == st.queue[2]
           rest == SubSeq(st.queue, 3, Len(st.queue))
       IN IF MapHas(players, player1) \/ MapHas(players, player2)
          THEN matchQuickPlayers_PairsAbsent(
                 [queue |-> rest,
                  matches |-> MapSet(MapSet(st.matches, player1, player2),
                                     player2, player1),
                  ready |-> MapSet(MapSet(st.ready, player1, FALSE),
                                   player2, FALSE),
                  sent |-> st.sent \o
                           (IF MapHas(players, player1)
                            THEN <<GameJoinedMsg(players[player1].ws, player2)>>
                            ELSE <<>>) \o
                           (IF MapHas(players, player2)
                            THEN <<GameJoinedMsg(players[player2].ws, player1)>>
                            ELSE <<>>),
                  formed |-> st.formed \cup {player1, player2}])
          ELSE matchQuickPlayers_PairsAbsent([st EXCEPT !.queue = rest])

\* A drain that pairs the two newest entries of the queue first.
RECURSIVE matchQuickPlayers_NewestFirst(_)
matchQuickPlayers_NewestFirst(st) ==
  IF Len(st.queue) < 2 THEN st
  ELSE LET player1 == st.queue[Len(st.queue)]
           player2 == st.queue[Len(st.queue) - 1]
           rest == SubSeq(st.queue, 1, Len(st.queue) - 2)
       IN IF MapHas(players, player1) /\ MapHas(players, player2)
          THEN matchQuickPlayers_NewestFirst(
                 [queue |-> rest,
                  matches |-> MapSet(MapSet(st.matches, player1, player2),
                                     player2, player1),
                  ready |-> MapSet(MapSet(st.ready, player1, FALSE),
                                   player2, FALSE),
                  sent |-> st.sent \o
                           <<GameJoinedMsg(players[player1].ws, player2),
                             GameJoinedMsg(players[player2].ws, player1)>>,
                  formed |-> st.formed \cup {player1, player2}])
          ELSE matchQuickPlayers_NewestFirst([st EXCEPT !.queue = rest])

\* A drain that returns at once and pairs nobody.
matchQuickPlayers_NoDrain(st) == st

\* The drain loop of matchQuickPlayers over st = [queue, matches, ready,
\* sent, formed]; formed collects the names paired by the loop.
RECURSIVE matchQuickPlayers(_)
matchQuickPlayers(st) ==
  IF Len(st.queue) < 2 THEN st
  ELSE LET player1 == st.queue[1]
           player2 == st.queue[2]
           rest == SubSeq(st.queue, 3, Len(st.queue))
       IN IF MapHas(players, player1) /\ MapHas(players, player2)
          THEN matchQuickPlayers(
                 [queue |-> rest,
                  matches |-> MapSet(MapSet(st.matches, player1, player2),
                                     player2, player1),
                  ready |-> MapSet(MapSet(st.ready, player1, FALSE),
                                   player2, FALSE),
                  sent |-> st.sent \o
                           <<GameJoinedMsg(players[player1].ws, player2),
                             GameJoinedMsg(players[player2].ws, player1)>>,
                  formed |-> st.formed \cup {player1, player2}])
          ELSE matchQuickPlayers([st EXCEPT !.queue = rest])

\* ResultMessages whose last branch tells the winning opponent it lost.
ResultMessages_BothLose(pl, player, opponent, choice, opponentChoice, result) ==
  IF result = "draw"
  THEN <<GameResultMsg(pl[player].ws, "draw", choice, opponentChoice, opponent),
         GameResultMsg(pl[opponent].ws, "draw", opponentChoice, choice, player)>>
  ELSE IF result = "player1"
  THEN <<GameResultMsg(pl[player].ws, "player", choice, opponentChoice, opponent),
         GameResultMsg(pl[opponent].ws, "opponent", opponentChoice, choice, player)>>
  ELSE <<GameResultMsg(pl[player].ws, "opponent", choice, opponentChoice, opponent),
         GameResultMsg(pl[opponent].ws, "opponent", opponentChoice, choice, player)>>

\* The two game_result messages of a resolved round (play_online).
ResultMessages(pl, player, opponent, choice, opponentChoice, result) ==
  IF result = "draw"
  THEN <<GameResultMsg(pl[player].ws, "draw", choice, opponentChoice, opponent),
         GameResultMsg(pl[opponent].ws, "draw", opponentChoice, choice, player)>>
  ELSE IF result = "player1"
  THEN <<GameResultMsg(pl[player].ws, "player", choice, opponentChoice, opponent),
         GameResultMsg(pl[opponent].ws, "opponent", opponentChoice, choice, player)>>
  ELSE <<GameResultMsg(pl[player].ws, "opponent", choice, opponentChoice, opponent),
         GameResultMsg(pl[opponent].ws, "player", opponentChoice, choice, player)>>

\* ResultScores that credits the sender whoever wins.
ResultScores_SenderAlways(player, opponent, result) ==
  IF result = "draw" THEN <<>> ELSE <<player>>

\* The score increments of a resolved round (play_online).
ResultScores(player, opponent, result) ==
  IF result = "draw" THEN <<>>
  ELSE IF result = "player1" THEN <<player>>
  ELSE <<opponent>>

\* AiScores that credits the player for every decisive round.
AiScores_WinOrLose(player, result) ==
  IF result = "draw" THEN <<>> ELSE <<player>>

\* The score increments of a round against the automated opponent (play_ai).
AiScores(player, result) ==
  IF result = "player1" THEN <<player>> ELSE <<>>

AiResultType(result) ==
  IF result = "draw" THEN "draw"
  ELSE IF result = "player1" THEN "player"
  ELSE "ai"

\* A choice test that accepts every symbol.
ValidChoice_Any(choice) == TRUE

\* ["pierre", "feuille", "ciseaux"].includes(data.choice)
ValidChoice(choice) == choice \in Choices

\* What lastEvent records of a submitted choice: the symbol when the code
\* does not recognize it.
ChoiceAsked(choice) == IF choice \in Choices THEN "-" ELSE choice

\* players.get(x).choice = null for both sides of a resolved round.
ClearChoices(pl, player, opponent) ==
  [n \in DOMAIN pl |->
     IF n = player \/ n = opponent THEN [pl[n] EXCEPT !.choice = null]
     ELSE pl[n]]

\* The opponent whose pending choice play_online resolves against, or null.
ResolvableOpponent(pl, m, player) ==
  LET opponent == MapGet(m, player) IN
  IF opponent # null /\ MapHas(pl, opponent) /\ pl[opponent].choice # null
  THEN opponent
  ELSE null

\* ---------------------------------------------------------------- initial
Init ==
  /\ players = EmptyMap
  /\ quickMatchQueue = <<>>
  /\ privateGames = EmptyMap
  /\ matches = EmptyMap
  /\ playerReadyState = EmptyMap
  /\ currentPlayer = [c \in Conns |-> null]
  /\ currentToken = [c \in Conns |-> null]
  /\ connState = [c \in Conns |-> "open"]
  /\ users = {}
  /\ nextGameId = 1
  /\ crashed = FALSE
  /\ sent = <<>>
  /\ onlineCount = NoBroadcast
  /\ scoreUpdates = <<>>
  /\ lastEvent = Event("none", 0, "-")
  /\ fresh = {}
  /\ joinedGames = {}
  /\ steps = 0

\* ----------------------------------------------------------------- actions
\* login without token or password (guest branch).
LoginGuest(c, n) ==
  /\ ~crashed /\ connState[c] = "open"
  /\ currentPlayer' = [currentPlayer EXCEPT ![c] = n]
  /\ IF MapHas(players, n)
     THEN /\ sent' = <<Msg(c, "login_error")>>
          /\ players' = players
          /\ onlineCount' = NoBroadcast
     ELSE /\ players' = MapSet(players, n, [ws |-> c, choice |-> null])
          /\ sent' = <<Msg(c, "login_success")>>
          /\ onlineCount' = broadcastOnlineCount(players')
  /\ fresh' = fresh \cap Pending(players')
  /\ scoreUpdates' = <<>>
  /\ lastEvent' = Event("login_guest", c, n)
  /\ UNCHANGED <<quickMatchQueue, privateGames, matches, playerReadyState,
                 currentToken, connState, users, nextGameId, crashed>>
  /\ UNCHANGED joinedGames

\* What the AuthManager answers: register succeeds for a new account name,
\* login and verifyToken for an existing one; ok is the rest of its verdict
\* (password, session expiry, e-mail uniqueness, database errors).
AuthAccepts(kind, n, ok) ==
  /\ ok
  /\ IF kind = "register" THEN n \notin users ELSE n \in users

\* register, login with token, login with password: the code after the await.
AuthJoin(c, kind, n, ok) ==
  /\ ~crashed /\ connState[c] = "open"
  /\ IF AuthAccepts(kind, n, ok)
     THEN /\ currentPlayer' = [currentPlayer EXCEPT ![c] = n]
          /\ currentToken' = [currentToken EXCEPT ![c] = n]
          /\ users' = users \cup {n}
          /\ players' = MapSet(players, n, [ws |-> c, choice |-> null])
          /\ sent' = <<Msg(c, kind \o "_success")>>
          /\ onlineCount' = broadcastOnlineCount(players')
     ELSE /\ sent' = <<Msg(c, kind \o "_error")>>
          /\ onlineCount' = NoBroadcast
          /\ UNCHANGED <<currentPlayer, currentToken, users, players>>
  /\ fresh' = fresh \cap Pending(players')
  /\ scoreUpdates' = <<>>
  /\ lastEvent' = Event(kind, c, n)
  /\ UNCHANGED <<quickMatchQueue, privateGames, matches, playerReadyState,
                 connState, nextGameId, crashed>>
  /\ UNCHANGED joinedGames

\* logout.  With a token the handler awaits AuthManager.logout (dbOk: the
\* session was deleted) and answers; the teardown follows in both cases.
Logout(c, dbOk) ==
  LET player == currentPlayer[c]
      awaited == currentToken[c] # null
      left == player # null
      pl == IF left THEN MapDelete(players, player) ELSE players
  IN
  /\ ~crashed /\ connState[c] = "open"
  /\ awaited \/ dbOk
  /\ sent' = (IF awaited
              THEN <<Msg(c, IF dbOk THEN "logout_success" ELSE "logout_error")>>
              ELSE <<>>)
             \o (IF left THEN NotifyOpponentLeft(players, matches, player)
                 ELSE <<>>)
  /\ players' = pl
  /\ IF left
     THEN /\ playerReadyState' = MapDelete(playerReadyState, player)
          /\ matches' = removePlayerFromMatch(matches, player)
          /\ quickMatchQueue' = RemoveFirst(quickMatchQueue, player)
          /\ privateGames' = RemoveHostedGames(privateGames, player)
          /\ onlineCount' = broadcastOnlineCount(pl)
          /\ currentPlayer' = [currentPlayer EXCEPT ![c] = null]
          /\ currentToken' = [currentToken EXCEPT ![c] = null]
     ELSE /\ onlineCount' = NoBroadcast
          /\ UNCHANGED <<playerReadyState, matches, quickMatchQueue,
                         privateGames, currentPlayer, currentToken>>
  /\ fresh' = fresh \cap Pending(pl)
  /\ scoreUpdates' = <<>>
  /\ lastEvent' = Event("logout", c, "-")
  /\ UNCHANGED <<connState, users, nextGameId, crashed>>
  /\ UNCHANGED joinedGames

\* play_ai; aiChoice is the draw of getRandomChoice.
PlayAi(c, choice, aiChoice) ==
  LET player == currentPlayer[c]
      result == getResult(choice, aiChoice)
  IN
  /\ ~crashed /\ connState[c] = "open"
  /\ lastEvent' = Event("play_ai", c, ChoiceAsked(choice))
  /\ onlineCount' = NoBroadcast
  /\ fresh' = fresh
  /\ IF ~ValidChoice(choice)
     THEN /\ sent' = <<>>
          /\ scoreUpdates' = <<>>
          /\ crashed' = crashed
     ELSE /\ scoreUpdates' = AiScores(player, result)
          /\ IF MapHas(players, player)
             THEN /\ sent' = <<AiResultMsg(players[player].ws,
                                           AiResultType(result), choice, aiChoice)>>
                  /\ crashed' = crashed
             ELSE \* players.get(currentPlayer) is undefined: TypeError
                  /\ sent' = <<>>
                  /\ crashed' \in BOOLEAN
  /\ UNCHANGED <<players, quickMatchQueue, privateGames, matches,
                 playerReadyState, currentPlayer, currentToken, connState,
                 users, nextGameId>>
  /\ UNCHANGED joinedGames

\* quick_match: enqueue unless queued, then matchQuickPlayers.
QuickMatch(c) ==
  LET player == currentPlayer[c]
      queue == IF InQueue(quickMatchQueue, player) THEN quickMatchQueue
               ELSE Append(quickMatchQueue, player)
      st == matchQuickPlayers([queue |-> queue, matches |-> matches,
                               ready |-> playerReadyState, sent |-> <<>>,
                               formed |-> {}])
  IN
  /\ ~crashed /\ connState[c] = "open"
  /\ quickMatchQueue' = st.queue
  /\ matches' = st.matches
  /\ playerReadyState' = st.ready
  /\ sent' = st.sent
  /\ fresh' = fresh \ st.formed
  /\ onlineCount' = NoBroadcast
  /\ scoreUpdates' = <<>>
  /\ lastEvent' = Event("quick_match", c, "-")
  /\ UNCHANGED <<players, privateGames, currentPlayer, currentToken,
                 connState, users, nextGameId, crashed>>
  /\ UNCHANGED joinedGames

\* create_private_game; the uuid is the next unused token.
CreatePrivateGame(c) ==
  LET player == currentPlayer[c]
      gameId == nextGameId
  IN
  /\ ~crashed /\ connState[c] = "open"
  /\ nextGameId <= MaxGames
  /\ nextGameId' = nextGameId + 1
  /\ privateGames' = MapSet(privateGames, gameId,
                            [host |-> player, guest |-> null])
  /\ IF MapHas(players, player)
     THEN /\ sent' = <<[Msg(players[player].ws, "private_game_created")
                          EXCEPT !.gameId = gameId]>>
          /\ crashed' = crashed
     ELSE /\ sent' = <<>>
          /\ crashed' \in BOOLEAN
  /\ onlineCount' = NoBroadcast
  /\ scoreUpdates' = <<>>
  /\ lastEvent' = Event("create_private_game", c, "-")
  /\ UNCHANGED <<players, quickMatchQueue, matches, playerReadyState,
                 currentPlayer, currentToken, connState, users, fresh>>
  /\ UNCHANGED joinedGames

\* A verdict that lets the host join the lobby it created.
JoinVerdict_HostMayJoin(games, gameId, player) ==
  IF ~MapHas(games, gameId) THEN "not_found"
  ELSE IF games[gameId].guest # null THEN "full"
  ELSE "ok"

\* Which check of join_private_game rejects the request, or "ok".
JoinVerdict(games, gameId, player) ==
  IF ~MapHas(games, gameId) THEN "not_found"
  ELSE IF games[gameId].host = player THEN "self_join"
  ELSE IF games[gameId].guest # null THEN "full"
  ELSE "ok"

\* join_private_game.
JoinPrivateGame(c, gameId) ==
  LET player == currentPlayer[c]
      verdict == JoinVerdict(privateGames, gameId, player)
      host == privateGames[gameId].host
  IN
  /\ ~crashed /\ connState[c] = "open"
  /\ lastEvent' = Event("join_private_game", c, ToString(gameId))
  /\ onlineCount' = NoBroadcast
  /\ scoreUpdates' = <<>>
  /\ IF verdict # "ok"
     THEN /\ IF MapHas(players, player)
             THEN /\ sent' = <<ErrorMsg(players[player].ws, verdict)>>
                  /\ crashed' = crashed
             ELSE /\ sent' = <<>>
                  /\ crashed' \in BOOLEAN
          /\ UNCHANGED <<privateGames, matches, playerReadyState, fresh,
                         joinedGames>>
     ELSE /\ privateGames' = [privateGames EXCEPT ![gameId].guest = player]
          /\ joinedGames' = joinedGames \cup {gameId}
          /\ matches' = MapSet(MapSet(matches, host, player), player, host)
          /\ playerReadyState' =
               MapSet(MapSet(playerReadyState, host, FALSE), player, FALSE)
          /\ fresh' = fresh \ {host, player}
          /\ IF ~MapHas(players, host)
             THEN /\ sent' = <<>>
                  /\ crashed' \in BOOLEAN
             ELSE IF ~MapHas(players, player)
             THEN /\ sent' = <<GameJoinedMsg(players[host].ws, player)>>
                  /\ crashed' \in BOOLEAN
             ELSE /\ sent' = <<GameJoinedMsg(players[host].ws, player),
                               GameJoinedMsg(players[player].ws, host)>>
                  /\ crashed' = crashed
  /\ UNCHANGED <<players, quickMatchQueue, currentPlayer, currentToken,
                 connState, users, nextGameId>>

\* play_online that unpairs the two participants once their round resolves.
PlayOnline_Unpairs(c, choice) ==
  LET player == currentPlayer[c]
      stored == [players EXCEPT ![player].choice = choice]
      opponent == ResolvableOpponent(stored, matches, player)
      opponentChoice == stored[opponent].choice
      result == getResult(choice, opponentChoice)
  IN
  /\ ~crashed /\ connState[c] = "open"
  /\ lastEvent' = Event("play_online", c, ChoiceAsked(choice))
  /\ onlineCount' = NoBroadcast
  /\ IF ~ValidChoice(choice) \/ ~MapHas(players, player)
     THEN /\ sent' = <<>>
          /\ scoreUpdates' = <<>>
          /\ UNCHANGED <<players, fresh, matches>>
     ELSE IF opponent = null
     THEN /\ players' = stored
          /\ sent' = <<>>
          /\ scoreUpdates' = <<>>
          /\ fresh' = fresh \cup {player}
          /\ UNCHANGED matches
     ELSE /\ sent' = ResultMessages(stored, player, opponent, choice,
                                    opponentChoice, result)
          /\ scoreUpdates' = ResultScores(player, opponent, result)
          /\ players' = ClearChoices(stored, player, opponent)
          /\ fresh' = fresh \ {player, opponent}
          /\ matches' = removePlayerFromMatch(matches, player)
  /\ UNCHANGED <<quickMatchQueue, privateGames, playerReadyState,
                 currentPlayer, currentToken, connState, users,
                 nextGameId, crashed>>
  /\ UNCHANGED joinedGames

\* play_online.
PlayOnline(c, choice) ==
  LET player == currentPlayer[c]
      stored == [players EXCEPT ![player].choice = choice]
      opponent == ResolvableOpponent(stored, matches, player)
      opponentChoice == stored[opponent].choice
      result == getResult(choice, opponentChoice)
  IN
  /\ ~crashed /\ connState[c] = "open"
  /\ lastEvent' = Event("play_online", c, ChoiceAsked(choice))
  /\ onlineCount' = NoBroadcast
  /\ IF ~ValidChoice(choice) \/ ~MapHas(players, player)
     THEN /\ sent' = <<>>
          /\ scoreUpdates' = <<>>
          /\ UNCHANGED <<players, fresh>>
     ELSE IF opponent = null
     THEN /\ players' = stored
          /\ sent' = <<>>
          /\ scoreUpdates' = <<>>
          /\ fresh' = fresh \cup {player}
     ELSE /\ sent' = ResultMessages(stored, player, opponent, choice,
                                    opponentChoice, result)
          /\ scoreUpdates' = ResultScores(player, opponent, result)
          /\ players' = ClearChoices(stored, player, opponent)
          /\ fresh' = fresh \ {player, opponent}
  /\ UNCHANGED <<quickMatchQueue, privateGames, matches, playerReadyState,
                 currentPlayer, currentToken, connState, users,
                 nextGameId, crashed>>
  /\ UNCHANGED joinedGames

\* ready_for_next_round.
ReadyForNextRound(c, ready) ==
  LET player == currentPlayer[c]
      voted == MapSet(playerReadyState, player, ready)
      opponent == MapGet(matches, player)
      opponentReady == MapHas(voted, opponent) /\ voted[opponent]
  IN
  /\ ~crashed /\ connState[c] = "open"
  /\ lastEvent' = Event("ready_for_next_round", c, ToString(ready))
  /\ onlineCount' = NoBroadcast
  /\ scoreUpdates' = <<>>
  /\ IF opponent # null /\ opponent # "IA" /\ MapHas(players, opponent)
     THEN IF voted[player] /\ opponentReady
          THEN /\ IF MapHas(players, player)
                  THEN /\ sent' = <<Msg(players[player].ws, "start_new_round"),
                                    Msg(players[opponent].ws, "start_new_round")>>
                       /\ playerReadyState' =
                            MapSet(MapSet(voted, player, FALSE), opponent, FALSE)
                       /\ crashed' = crashed
                  ELSE /\ sent' = <<>>
                       /\ playerReadyState' = voted
                       /\ crashed' \in BOOLEAN
          ELSE IF voted[player] # opponentReady /\ voted[player]
          THEN /\ playerReadyState' = voted
               /\ IF MapHas(players, player)
                  THEN /\ sent' = <<Msg(players[player].ws, "opponent_left")>>
                       /\ crashed' = crashed
                  ELSE /\ sent' = <<>>
                       /\ crashed' \in BOOLEAN
          ELSE /\ playerReadyState' = voted
               /\ sent' = <<>>
               /\ crashed' = crashed
     ELSE /\ playerReadyState' = voted
          /\ sent' = <<>>
          /\ crashed' = crashed
  /\ UNCHANGED <<players, quickMatchQueue, privateGames, matches,
                 currentPlayer, currentToken, connState, users,
                 nextGameId, fresh>>
  /\ UNCHANGED joinedGames

\* leave_game.
LeaveGame(c) ==
  LET player == currentPlayer[c] IN
  /\ ~crashed /\ connState[c] = "open"
  /\ sent' = NotifyOpponentLeft(players, matches, player)
  /\ matches' = removePlayerFromMatch(matches, player)
  /\ quickMatchQueue' = RemoveFirst(quickMatchQueue, player)
  /\ privateGames' = RemoveHostedGames(privateGames, player)
  /\ onlineCount' = NoBroadcast
  /\ scoreUpdates' = <<>>
  /\ lastEvent' = Event("leave_game", c, "-")
  /\ UNCHANGED <<players, playerReadyState, currentPlayer, currentToken,
                 connState, users, nextGameId, crashed, fresh>>
  /\ UNCHANGED joinedGames

\* ws.on("close").
Close(c) ==
  LET player == currentPlayer[c]
      left == player # null
      pl == IF left THEN MapDelete(players, player) ELSE players
  IN
  /\ ~crashed /\ connState[c] = "open"
  /\ connState' = [connState EXCEPT ![c] = "closed"]
  /\ players' = pl
  /\ IF left
     THEN /\ sent' = NotifyOpponentLeft(players, matches, player)
          /\ playerReadyState' = MapDelete(playerReadyState, player)
          /\ matches' = removePlayerFromMatch(matches, player)
          /\ quickMatchQueue' = RemoveFirst(quickMatchQueue, player)
          /\ privateGames' = RemoveHostedGames(privateGames, player)
          /\ onlineCount' = broadcastOnlineCount(pl)
     ELSE /\ sent' = <<>>
          /\ onlineCount' = NoBroadcast
          /\ UNCHANGED <<playerReadyState, matches, quickMatchQueue,
                         privateGames>>
  /\ fresh' = fresh \cap Pending(pl)
  /\ scoreUpdates' = <<>>
  /\ lastEvent' = Event("close", c, "-")
  \* no handler of a closed connection runs again: its closure is dropped
  /\ currentPlayer' = [currentPlayer EXCEPT ![c] = null]
  /\ currentToken' = [currentToken EXCEPT ![c] = null]
  /\ UNCHANGED <<users, nextGameId, crashed>>
  /\ UNCHANGED joinedGames

\* ------------------------------------------------------------ specification
Tick == steps < MaxEvents /\ steps' = steps + 1

\* Every event, from every connection, MaxEvents events deep.
Next ==
  \/ Tick /\ \E c \in Conns : \E n \in ClientNames(c) : LoginGuest(c, n)
  \/ Tick /\ \E c \in Conns, kind \in {"register", "login"}, ok \in BOOLEAN :
        \E n \in ClientNames(c) \cap Accounts : AuthJoin(c, kind, n, ok)
  \/ Tick /\ \E c \in Conns, dbOk \in BOOLEAN : Logout(c, dbOk)
  \/ Tick /\ \E c \in Conns, choice \in Choices \cup {InvalidChoice},
        aiChoice \in Choices : PlayAi(c, choice, aiChoice)
  \/ Tick /\ \E c \in Conns : QuickMatch(c)
  \/ Tick /\ \E c \in Conns : CreatePrivateGame(c)
  \/ Tick /\ \E c \in Conns, gameId \in GameIds : JoinPrivateGame(c, gameId)
  \/ Tick /\ \E c \in Conns, choice \in Choices \cup {InvalidChoice} :
        PlayOnline(c, choice)
  \/ Tick /\ \E c \in Conns, ready \in BOOLEAN : ReadyForNextRound(c, ready)
  \/ Tick /\ \E c \in Conns : LeaveGame(c)
  \/ Tick /\ \E c \in Conns : Close(c)

Spec == Init /\ [][Next]_vars

\* Guest joins, the quick-match queue and teardown, from every connection,
\* to any depth.
NextQueue ==
  \/ UNCHANGED steps /\ \E c \in Conns : \E n \in ClientNames(c) : LoginGuest(c, n)
  \/ UNCHANGED steps /\ \E c \in Conns : QuickMatch(c)
  \/ UNCHANGED steps /\ \E c \in Conns : LeaveGame(c)
  \/ UNCHANGED steps /\ \E c \in Conns : Close(c)

SpecQueue == Init /\ [][NextQueue]_vars

\* Matches and rounds between the first NumPair connections, to any depth.
NextPair ==
  \/ UNCHANGED steps /\ \E c \in 1..NumPair : \E n \in ClientNames(c) : LoginGuest(c, n)
  \/ UNCHANGED steps /\ \E c \in 1..NumPair : QuickMatch(c)
  \/ UNCHANGED steps /\ \E c \in 1..NumPair : CreatePrivateGame(c)
  \/ UNCHANGED steps /\ \E c \in 1..NumPair, gameId \in GameIds : JoinPrivateGame(c, gameId)
  \/ UNCHANGED steps /\ \E c \in 1..NumPair, choice \in Choices \cup {InvalidChoice} :
        PlayOnline(c, choice)
  \/ UNCHANGED steps /\ \E c \in 1..NumPair, choice \in Choices \cup {InvalidChoice},
        aiChoice \in Choices : PlayAi(c, choice, aiChoice)
  \/ UNCHANGED steps /\ \E c \in 1..NumPair : LeaveGame(c)
  \/ UNCHANGED steps /\ \E c \in 1..NumPair : Close(c)

SpecPair == Init /\ [][NextPair]_vars

\* Quick matches and the ready negotiation of their participants, from every
\* connection, to any depth.
NextReady ==
  \/ UNCHANGED steps /\ \E c \in Conns : \E n \in ClientNames(c) : LoginGuest(c, n)
  \/ UNCHANGED steps /\ \E c \in Conns : QuickMatch(c)
  \/ UNCHANGED steps /\ \E c \in Conns, ready \in BOOLEAN :
        ReadyForNextRound(c, ready)
  \/ UNCHANGED steps /\ \E c \in Conns : LeaveGame(c)
  \/ UNCHANGED steps /\ \E c \in Conns : Close(c)

SpecReady == Init /\ [][NextReady]_vars

\* ------------------------------------------------------------------ claims
\* The rule table of the game: <<x, y>> is here when x beats y.
Beats == {<<"pierre", "ciseaux">>, <<"ciseaux", "feuille">>,
          <<"feuille", "pierre">>}

GameResults == {i \in DOMAIN sent : sent[i].type = "game_result"}

\* The lobbies hosted by n.
HostedGames(games, n) == {g \in DOMAIN games : games[g].host = n}

\* C1: the match table is symmetric: matches[a] = b iff matches[b] = a.
C1_MatchTableSymmetric ==
  \A a, b \in Names : (MapGet(matches, a) = b) <=> (MapGet(matches, b) = a)

\* C2: a participant who has an opponent is never paired again: no event
\* replaces an existing match entry by another opponent.
C2_EntryNeverOverwritten ==
  [][\A a \in Names :
       MapGet(matches, a) # null =>
         MapGet(matches', a) \in {MapGet(matches, a), null}]_vars

\* C3: a join (guest login, token or password login, register) for a name
\* that is in the registry is rejected and leaves the registry unchanged.
C3_DuplicateJoinRejected ==
  [][(/\ lastEvent'.type \in {"login_guest", "login", "register"}
      /\ MapHas(players, lastEvent'.name))
     => /\ players' = players
        /\ sent' # <<>>
        /\ sent'[1].type \in {"login_error", "register_error"}]_vars

\* C4: after a guest login is rejected for a name another connection owns,
\* the next quick_match, play_online, leave_game or close of the rejected
\* connection changes nothing of the owner's registration, pending choice,
\* queue entry, match or lobbies.
C4_RejectedJoinBindsNothing ==
  [][(/\ lastEvent.type = "login_guest"
      /\ sent = <<Msg(lastEvent.conn, "login_error")>>
      /\ MapHas(players, lastEvent.name)
      /\ players[lastEvent.name].ws # lastEvent.conn
      /\ lastEvent'.conn = lastEvent.conn
      /\ lastEvent'.type \in {"quick_match", "play_online", "leave_game",
                              "close"})
     => LET n == lastEvent.name IN
        /\ MapHas(players', n)
        /\ players'[n] = players[n]
        /\ InQueue(quickMatchQueue', n) <=> InQueue(quickMatchQueue, n)
        /\ MapGet(matches', n) = MapGet(matches, n)
        /\ HostedGames(privateGames', n) = HostedGames(privateGames, n)]_vars

\* C5: no name is in the quick-match queue while it has an opponent.
C5_QueueMatchExclusion ==
  \A n \in Names :
    ~(InQueue(quickMatchQueue, n) /\ MapGet(matches, n) # null)

\* C6: a play_online whose sender's opponent has submitted no choice since
\* the match was formed or last resolved sends no game_result and requests
\* no score increment.
C6_OneSideNeverResolves ==
  [][(/\ lastEvent'.type = "play_online"
      /\ MapGet(matches, currentPlayer[lastEvent'.conn]) \notin fresh)
     => /\ \A i \in DOMAIN sent' : sent'[i].type # "game_result"
        /\ scoreUpdates' = <<>>]_vars

\* C7: getResult(x, x) is a draw; rock beats scissors, scissors beat paper,
\* paper beats rock as player1; for x # y getResult(x, y) is player1 iff
\* getResult(y, x) is player2; and every ai_result sent reports the outcome
\* the rule table gives for its two choices.
C7_GetResultRules ==
  /\ \A x \in Choices : getResult(x, x) = "draw"
  /\ \A x, y \in Choices :
       /\ <<x, y>> \in Beats => getResult(x, y) = "player1"
       /\ x # y => (getResult(x, y) = "player1" <=> getResult(y, x) = "player2")
  /\ \A i \in DOMAIN sent :
       sent[i].type = "ai_result" =>
         sent[i].result =
           (IF sent[i].playerChoice = sent[i].opponentChoice THEN "draw"
            ELSE IF <<sent[i].playerChoice, sent[i].opponentChoice>> \in Beats
            THEN "player"
            ELSE "ai")

\* C7 witness: a round against the automated opponent was won and reported.
C7_Witness ==
  \E i \in DOMAIN sent :
    /\ sent[i].type = "ai_result"
    /\ sent[i].result = "player"
    /\ sent[i].playerChoice = "ciseaux"

\* C8: a resolved round sends exactly two game_result messages, one to each
\* of its two participants, each with the recipient's own choice, the other
\* side's choice and name, and with mirrored outcomes.
C8_ResultsMirrored ==
  GameResults # {} =>
    /\ Len(sent) = 2
    /\ GameResults = {1, 2}
    /\ LET m1 == sent[1]
           m2 == sent[2]
       IN /\ m1.opponentName # m2.opponentName
          /\ MapHas(players, m1.opponentName)
          /\ MapHas(players, m2.opponentName)
          /\ m1.to = players[m2.opponentName].ws
          /\ m2.to = players[m1.opponentName].ws
          /\ m1.playerChoice \in Choices
          /\ m2.playerChoice \in Choices
          /\ m1.opponentChoice = m2.playerChoice
          /\ m2.opponentChoice = m1.playerChoice
          /\ m1.result \in {"draw", "player", "opponent"}
          /\ m1.result = "player" <=> m2.result = "opponent"
          /\ m1.result = "opponent" <=> m2.result = "player"
          /\ m1.result = "draw" <=> m2.result = "draw"
          /\ m1.result = "draw" <=> m1.playerChoice = m1.opponentChoice

\* C8 witness: a round was resolved with the sender losing.
C8_Witness ==
  /\ lastEvent.type = "play_online"
  /\ GameResults = {1, 2}
  /\ sent[1].result = "opponent"

\* The winner the rule table gives, as a list of score increments.
Winner(name1, choice1, name2, choice2) ==
  IF <<choice1, choice2>> \in Beats THEN <<name1>>
  ELSE IF <<choice2, choice1>> \in Beats THEN <<name2>>
  ELSE <<>>

\* C9: a resolved round requests one score increment, for the winner, when
\* it is decisive and none when it is a draw; no other event requests one.
C9_OneIncrementForWinner ==
  /\ GameResults # {} =>
       scoreUpdates = Winner(sent[2].opponentName, sent[1].playerChoice,
                             sent[1].opponentName, sent[1].opponentChoice)
  /\ (\E i \in DOMAIN sent : sent[i].type = "ai_result") =>
       scoreUpdates = (IF <<sent[1].playerChoice, sent[1].opponentChoice>>
                            \in Beats
                       THEN <<currentPlayer[lastEvent.conn]>>
                       ELSE <<>>)
  /\ scoreUpdates # <<>> =>
       /\ Len(scoreUpdates) = 1
       /\ \/ lastEvent.type = "play_online" /\ GameResults # {}
          \/ lastEvent.type = "play_ai"

\* C9 witness: the sender of the resolving play_online lost and the
\* opponent's score was incremented.
C9_Witness ==
  /\ lastEvent.type = "play_online"
  /\ GameResults = {1, 2}
  /\ sent[1].result = "opponent"
  /\ scoreUpdates = <<sent[1].opponentName>>

\* C10: after a round resolves both of its participants have no pending
\* choice, and between events the two participants of a match never both
\* hold a pending choice.
C10_NoRoundLeftUnresolved ==
  /\ GameResults # {} =>
       /\ players[sent[1].opponentName].choice = null
       /\ players[sent[2].opponentName].choice = null
  /\ \A p, q \in Names :
       (MapGet(matches, p) = q /\ MapHas(players, p) /\ MapHas(players, q))
         => ~(players[p].choice # null /\ players[q].choice # null)

\* C11: a play_online event, resolving or not, leaves the match table, the
\* queue, the lobbies and the ready votes unchanged.
C11_PlayOnlineFrame ==
  [][lastEvent'.type = "play_online"
     => UNCHANGED <<matches, quickMatchQueue, privateGames,
                    playerReadyState>>]_vars

\* C11 witness: a round has just resolved and its two participants are still
\* matched with each other, with no pending choice, as before the round.
C11_Witness ==
  /\ lastEvent.type = "play_online"
  /\ GameResults = {1, 2}
  /\ LET p == sent[2].opponentName
         q == sent[1].opponentName
     IN /\ MapGet(matches, p) = q
        /\ MapGet(matches, q) = p
        /\ players[p].choice = null
        /\ players[q].choice = null
        /\ MapHas(playerReadyState, p)

\* The queue of a quick_match by connection c after its push, before the drain.
Arrived(c) ==
  IF InQueue(quickMatchQueue, currentPlayer[c]) THEN quickMatchQueue
  ELSE Append(quickMatchQueue, currentPlayer[c])

\* C12: quick-match pairing is FIFO: a pair formed by a quick_match event
\* is made of the two oldest entries of the queue, the oldest as player1,
\* and no pair is formed while an entry that waited before the event is
\* still waiting in the queue after it.
C12_DrainIsFifo ==
  [][lastEvent'.type = "quick_match"
     => LET q == Arrived(lastEvent'.conn)
            joined == {i \in DOMAIN sent' : sent'[i].type = "game_joined"}
        IN /\ joined # {} =>
                /\ Len(q) >= 2
                /\ sent' = <<GameJoinedMsg(players[q[1]].ws, q[2]),
                             GameJoinedMsg(players[q[2]].ws, q[1])>>
                /\ MapGet(matches', q[1]) = q[2]
                /\ MapGet(matches', q[2]) = q[1]
                /\ quickMatchQueue' = SubSeq(q, 3, Len(q))
           /\ \A n \in Names :
                (InQueue(quickMatchQueue, n) /\ InQueue(quickMatchQueue', n))
                  => joined = {}]_vars

\* C12 witness: a quick_match has paired its sender, the later arrival, with
\* the participant who waited first; the first notice went to the latter.
C12_Witness ==
  /\ lastEvent.type = "quick_match"
  /\ Len(sent) = 2
  /\ sent[1].type = "game_joined"
  /\ sent[1].to # lastEvent.conn
  /\ sent[2].to = lastEvent.conn
  /\ MapGet(matches, sent[1].opponentName) = sent[2].opponentName

\* C13: every pair formed by the quick-match drain is made of two names that
\* are in the connection registry when they are paired: each match entry a
\* quick_match event writes, and each game_joined it sends, names registered
\* participants only.
C13_PairsAreRegistered ==
  [][lastEvent'.type = "quick_match"
     => /\ \A n \in DOMAIN matches' :
             MapGet(matches, n) # matches'[n]
               => MapHas(players, n) /\ MapHas(players, matches'[n])
        /\ \A i \in DOMAIN sent' :
             sent'[i].type = "game_joined"
               => MapHas(players, sent'[i].opponentName)]_vars

\* C13 witness: a quick_match has drained two entries, one of them not
\* registered, without pairing them: the queue is empty and nothing was sent.
C13_Witness ==
  /\ lastEvent.type = "quick_match"
  /\ quickMatchQueue = <<>>
  /\ sent = <<>>

\* C14: a registered participant waiting in the queue leaves it only by being
\* paired (a game_joined goes to it and it has an opponent) or by a
\* leave_game, logout or close of its own, never by the drain discarding it.
C14_OnlyAbsentDropped ==
  [][\A n \in Names :
       (/\ InQueue(quickMatchQueue, n)
        /\ MapHas(players, n)
        /\ ~InQueue(quickMatchQueue', n))
       => \/ /\ MapGet(matches', n) # null
             /\ \E i \in DOMAIN sent' :
                  /\ sent'[i].type = "game_joined"
                  /\ sent'[i].to = players[n].ws
          \/ /\ lastEvent'.type \in {"leave_game", "logout", "close"}
             /\ currentPlayer[lastEvent'.conn] = n]_vars

\* C15: join_private_game checks in this order: unknown token, not-found
\* error; token hosted by the sender, self-join error; token that has a
\* guest, full error.  In each case the one message sent is that error, to
\* the sender, and the lobbies, the match table, the ready votes and the
\* queue are unchanged.
C15_JoinErrors ==
  [][lastEvent'.type = "join_private_game"
     => \A g \in GameIds :
          lastEvent'.name = ToString(g)
          => LET sender == lastEvent'.conn
                 kind == IF g \notin DOMAIN privateGames THEN "not_found"
                         ELSE IF privateGames[g].host = currentPlayer[sender]
                         THEN "self_join"
                         ELSE IF privateGames[g].guest # null THEN "full"
                         ELSE "ok"
             IN kind # "ok"
                => /\ sent' = <<ErrorMsg(sender, kind)>>
                   /\ UNCHANGED <<privateGames, matches, playerReadyState,
                                  quickMatchQueue>>]_vars

\* C16: a lobby token results in at most one join that gets through: once a
\* join_private_game has paired a guest with the host of a token, every later
\* join_private_game with that token is answered by a not-found or full
\* error to its sender, sends no game_joined and changes no lobby, match
\* entry or ready vote.
C16_LobbyOneShot ==
  [][lastEvent'.type = "join_private_game"
     => \A g \in joinedGames :
          lastEvent'.name = ToString(g)
          => /\ Len(sent') = 1
             /\ sent'[1].type = "error"
             /\ sent'[1].result \in {"not_found", "full"}
             /\ sent'[1].to = lastEvent'.conn
             /\ UNCHANGED <<privateGames, matches, playerReadyState>>]_vars

\* C17: immediately after a leave_game or a close of the connection of
\* participant p, p has no opponent, no match entry names p as opponent, p
\* is not in the queue and no lobby has p as host.
C17_TeardownPostcondition ==
  [][(/\ lastEvent'.type \in {"leave_game", "close"}
      /\ currentPlayer[lastEvent'.conn] # null)
     => LET p == currentPlayer[lastEvent'.conn] IN
        /\ MapGet(matches', p) = null
        /\ \A n \in DOMAIN matches' : matches'[n] # p
        /\ ~InQueue(quickMatchQueue', p)
        /\ HostedGames(privateGames', p) = {}]_vars

\* The opponent_left notices among the messages of the event just handled.
OpponentLeftNotices(msgs) ==
  {i \in DOMAIN msgs : msgs[i].type = "opponent_left"}

\* C18: when a participant whose opponent is registered leaves or
\* disconnects, the opponent is sent exactly one opponent_left; a leave_game
\* or a close that follows a leave_game of the same connection sends nothing
\* and changes no match entry, queue entry, lobby (and, for leave_game, no
\* registration or ready vote either).
C18_NotifiedExactlyOnce ==
  [][lastEvent'.type \in {"leave_game", "close"}
     => LET c == lastEvent'.conn
            p == currentPlayer[c]
            q == MapGet(matches, p)
        IN /\ (p # null /\ q # null /\ MapHas(players, q))
                => /\ Cardinality(OpponentLeftNotices(sent')) = 1
                   /\ \A i \in OpponentLeftNotices(sent') :
                        sent'[i].to = players[q].ws
           /\ (lastEvent.type = "leave_game" /\ lastEvent.conn = c)
                => /\ sent' = <<>>
                   /\ ~crashed'
                   /\ UNCHANGED <<matches, quickMatchQueue, privateGames>>
                   /\ lastEvent'.type = "leave_game"
                        => UNCHANGED <<players, playerReadyState>>]_vars

\* C19: from the same state leave_game by p and the close of p's connection
\* produce the same match table, queue, lobbies, ready votes and notices to
\* the opponent (close also unregisters p and broadcasts the online count):
\* both produce the teardown of p, with the ready votes as they were.
C19_LeaveEqualsClose ==
  [][(/\ lastEvent'.type \in {"leave_game", "close"}
      /\ currentPlayer[lastEvent'.conn] # null)
     => LET p == currentPlayer[lastEvent'.conn] IN
        /\ matches' = removePlayerFromMatch(matches, p)
        /\ quickMatchQueue' = RemoveFirst(quickMatchQueue, p)
        /\ privateGames' = RemoveHostedGames(privateGames, p)
        /\ sent' = NotifyOpponentLeft(players, matches, p)
        /\ playerReadyState' = playerReadyState]_vars

\* The start_new_round notices among the messages of the event just handled.
StartNotices(msgs) == {i \in DOMAIN msgs : msgs[i].type = "start_new_round"}

\* C20: when a ready_for_next_round(true) of p makes the votes of p and of
\* p's registered opponent both true, start_new_round is sent to exactly
\* those two participants, both votes are reset to false and the match
\* entries of both are unchanged.
C20_BothReadyStartsRound ==
  [][(/\ lastEvent'.type = "ready_for_next_round"
      /\ lastEvent'.name = ToString(TRUE))
     => LET p == currentPlayer[lastEvent'.conn]
            q == MapGet(matches, p)
        IN (/\ MapHas(players, p)
            /\ q # null /\ MapHas(players, q)
            /\ MapHas(playerReadyState, q) /\ playerReadyState[q])
           => /\ Len(sent') = 2
              /\ StartNotices(sent') = {1, 2}
              /\ {sent'[1].to, sent'[2].to} = {players[p].ws, players[q].ws}
              /\ playerReadyState'[p] = FALSE
              /\ playerReadyState'[q] = FALSE
              /\ matches' = matches]_vars

\* C21: a ready_for_next_round(false) from a matched participant tears the
\* match down at once, removing both directed entries, and sends
\* opponent_left to the other side.
C21_FalseVoteLeaves ==
  [][(/\ lastEvent'.type = "ready_for_next_round"
      /\ lastEvent'.name = ToString(FALSE))
     => LET p == currentPlayer[lastEvent'.conn]
            q == MapGet(matches, p)
        IN (MapHas(players, p) /\ q # null /\ MapHas(players, q))
           => /\ MapGet(matches', p) = null
              /\ MapGet(matches', q) = null
              /\ \E i \in DOMAIN sent' :
                   /\ sent'[i].type = "opponent_left"
                   /\ sent'[i].to = players[q].ws]_vars

\* C22: a ready_for_next_round from a participant with no current opponent
\* is answered with an error to that participant and changes no state: no
\* ready vote is recorded.
C22_VoteOutsideMatchRejected ==
  [][lastEvent'.type = "ready_for_next_round"
     => LET c == lastEvent'.conn
            p == currentPlayer[c]
        IN (MapHas(players, p) /\ MapGet(matches, p) = null)
           => /\ Len(sent') = 1
              /\ sent'[1].type = "error"
              /\ sent'[1].to = c
              /\ UNCHANGED <<playerReadyState, players, matches,
                             quickMatchQueue, privateGames>>]_vars

\* C23: when an event gives a participant a new opponent, that participant's
\* ready vote is false after the event; and after every event a participant
\* with no current opponent has no ready vote equal to true.
C23_ReadyVoteLifecycle ==
  [][\A n \in Names :
       /\ (MapGet(matches', n) # null /\ MapGet(matches', n) # MapGet(matches, n))
            => (MapHas(playerReadyState', n) /\ ~playerReadyState'[n])
       /\ MapGet(matches', n) = null
            => ~(MapHas(playerReadyState', n) /\ playerReadyState'[n])]_vars

\* C24: a play_online or play_ai whose choice is not one of the three
\* symbols changes nothing: the pending choices keep their values, no result
\* is sent to anyone, no score increment is requested and the tables are
\* unchanged.
C24_InvalidChoiceRejected ==
  [][(/\ lastEvent'.type \in {"play_online", "play_ai"}
      /\ lastEvent'.name = InvalidChoice)
     => /\ sent' = <<>>
        /\ scoreUpdates' = <<>>
        /\ ~crashed'
        /\ UNCHANGED <<players, matches, quickMatchQueue, privateGames,
                       playerReadyState>>]_vars

\* C24 witness: an invalid play_online was sent by a registered participant
\* whose registered opponent has a pending choice, so that a recognized
\* symbol would have resolved the round.
C24_Witness ==
  /\ lastEvent.type = "play_online"
  /\ lastEvent.name = InvalidChoice
  /\ LET p == currentPlayer[lastEvent.conn]
         q == MapGet(matches, p)
     IN /\ MapHas(players, p)
        /\ q # null /\ MapHas(players, q)
        /\ players[q].choice # null

\* C25: every semantically invalid input (a join_private_game for an unknown
\* lobby, for the sender's own lobby or for a full lobby, a choice that is
\* not one of the three symbols, a guest login for a registered name) is
\* answered by one error notification, sent to the sender and to nobody else.
C25_TypedErrorToSender ==
  [][LET c == lastEvent'.conn
         p == currentPlayer[c]
         invalidChoice == /\ lastEvent'.type \in {"play_online", "play_ai"}
                          /\ lastEvent'.name = InvalidChoice
         invalidJoin == /\ lastEvent'.type = "join_private_game"
                        /\ \E g \in GameIds :
                             /\ lastEvent'.name = ToString(g)
                             /\ \/ g \notin DOMAIN privateGames
                                \/ privateGames[g].host = p
                                \/ privateGames[g].guest # null
         duplicateName == /\ lastEvent'.type = "login_guest"
                          /\ MapHas(players, lastEvent'.name)
     IN (invalidChoice \/ invalidJoin \/ duplicateName)
        => /\ Len(sent') = 1
           /\ sent'[1].type \in {"error", "login_error"}
           /\ sent'[1].to = c]_vars

\* C26: after every event that registers or unregisters a participant (a
\* successful join, a logout, the close of a joined participant's
\* connection) an online_count is sent to every participant registered after
\* the event, and its count is the size of the registry after the event.
C26_OnlineCountBroadcast ==
  [][(\/ DOMAIN players' # DOMAIN players
      \/ /\ lastEvent'.type \in {"login_guest", "login", "register"}
         /\ sent' # <<>>
         /\ sent'[1].type \in {"login_success", "register_success"})
     => /\ onlineCount'.count = Cardinality(DOMAIN players')
        /\ onlineCount'.to = DOMAIN players']_vars

\* C26 witness: a connection has closed and the online count went to the
\* two participants who remain registered.
C26_Witness ==
  /\ lastEvent.type = "close"
  /\ onlineCount.count = 2
  /\ onlineCount.to = DOMAIN players
  /\ Cardinality(DOMAIN players) = 2

\* C27: a play_ai with a recognized symbol from a registered participant (a
\* connection the registry holds under its name) sends exactly one ai_result,
\* to the sender, in the same step, whichever symbol the automated side
\* draws; the sender's score is incremented iff the sender wins; the pending
\* choices, the match table, the queue and the lobbies are unchanged.
C27_AiRoundImmediate ==
  [][(/\ lastEvent'.type = "play_ai"
      /\ lastEvent'.name # InvalidChoice
      /\ MapHas(players, currentPlayer[lastEvent'.conn])
      /\ players[currentPlayer[lastEvent'.conn]].ws = lastEvent'.conn)
     => LET c == lastEvent'.conn
            p == currentPlayer[c]
        IN /\ Len(sent') = 1
           /\ sent'[1].type = "ai_result"
           /\ sent'[1].to = c
           /\ sent'[1].playerChoice \in Choices
           /\ sent'[1].opponentChoice \in Choices
           /\ sent'[1].result = "player"
                <=> <<sent'[1].playerChoice, sent'[1].opponentChoice>> \in Beats
           /\ sent'[1].result = "draw"
                <=> sent'[1].playerChoice = sent'[1].opponentChoice
           /\ sent'[1].result \in {"player", "draw", "ai"}
           /\ scoreUpdates' = (IF sent'[1].result = "player" THEN <<p>>
                               ELSE <<>>)
           /\ ~crashed'
           /\ UNCHANGED <<players, matches, quickMatchQueue,
                          privateGames>>]_vars

\* C27 witness: a registered participant has just lost a round against the
\* automated opponent: the ai_result came back at once and no score moved.
C27_Witness ==
  /\ lastEvent.type = "play_ai"
  /\ Len(sent) = 1
  /\ sent[1].type = "ai_result"
  /\ sent[1].to = lastEvent.conn
  /\ sent[1].result = "ai"
  /\ scoreUpdates = <<>>

\* C28: the sentinel name "IA" is never the name of a registered participant,
\* and whenever a participant whose opponent is registered leaves or
\* disconnects, that opponent receives opponent_left and the opponent's
\* reciprocal match entry is removed.
C28_SentinelNeverRegistered ==
  [][/\ ~MapHas(players', "IA")
     /\ (/\ lastEvent'.type \in {"leave_game", "close"}
         /\ MapHas(players, currentPlayer[lastEvent'.conn])
         /\ players[currentPlayer[lastEvent'.conn]].ws = lastEvent'.conn
         /\ MapHas(players, MapGet(matches, currentPlayer[lastEvent'.conn])))
        => LET opponent == MapGet(matches, currentPlayer[lastEvent'.conn])
           IN /\ \E i \in 1..Len(sent') :
                   /\ sent'[i].type = "opponent_left"
                   /\ sent'[i].to = players[opponent].ws
              /\ ~MapHas(matches', opponent)]_vars

\* C29: no event is fatal: no handler throws (the server never crashes), and
\* no handler stops half-way: a create_private_game that stored a lobby has
\* also sent its private_game_created, and a play_ai that wrote a score has
\* also sent its ai_result.
C29_NoEventIsFatal ==
  [][/\ ~crashed'
     /\ (lastEvent'.type = "create_private_game" /\ privateGames' # privateGames)
        => (Len(sent') = 1 /\ sent'[1].type = "private_game_created")
     /\ (lastEvent'.type = "play_ai" /\ scoreUpdates' # <<>>)
        => (Len(sent') = 1 /\ sent'[1].type = "ai_result")]_vars

\* C30: between events the quick-match queue holds at most one entry, and
\* only quick_match adds to the queue.
C30_QueueAtMostOne ==
  [][/\ Len(quickMatchQueue') <= 1
     /\ Len(quickMatchQueue') > Len(quickMatchQueue)
        => lastEvent'.type = "quick_match"]_vars

\* C30 witness: a quick_match found nobody waiting and left its sender as
\* the single entry of the queue.
C30_Witness ==
  /\ lastEvent.type = "quick_match"
  /\ Len(quickMatchQueue) = 1
  /\ quickMatchQueue[1] = currentPlayer[lastEvent.conn]
  /\ sent = <<>>

\* C31: no participant is ever their own opponent: matches[p] # p for every
\* name p, whether the match was formed by quick match or by a lobby join.
C31_NeverOwnOpponent ==
  \A p \in DOMAIN matches : matches[p] # p

\* C31 witness: a lobby join has just paired its sender with the host, a
\* different name.
C31_Witness ==
  /\ lastEvent.type = "join_private_game"
  /\ Len(sent) = 2
  /\ sent[1].type = "game_joined"
  /\ MapGet(matches, currentPlayer[lastEvent.conn]) \in Names
  /\ MapGet(matches, currentPlayer[lastEvent.conn]) # currentPlayer[lastEvent.conn]

\* C32: a pending choice belongs to the current match: a registered
\* participant holding a pending choice has a current opponent, and when a
\* match is formed both of its participants have no pending choice.
C32_ChoiceBelongsToMatch ==
  [][/\ \A p \in DOMAIN players' :
          players'[p].choice # null => MapGet(matches', p) # null
     /\ \A p \in DOMAIN players' :
          (/\ MapGet(matches', p) # null
           /\ MapGet(matches', p) # MapGet(matches, p))
            => players'[p].choice = null]_vars

\* C33: opponent_left reaches a participant only in a step where that
\* participant's current opponent leaves, logs out or disconnects and the
\* match is torn down; a ready vote never produces it.
C33_OpponentLeftOnlyOnTeardown ==
  [][\A i \in DOMAIN sent' :
       sent'[i].type = "opponent_left"
         => /\ lastEvent'.type \in {"leave_game", "logout", "close"}
            /\ \E q \in DOMAIN players :
                 /\ players[q].ws = sent'[i].to
                 /\ MapGet(matches, q) = currentPlayer[lastEvent'.conn]
                 /\ ~MapHas(matches', q)]_vars

\* C34: every name in the quick-match queue and every lobby host is a
\* registered participant.
C34_QueuedAndHostsRegistered ==
  /\ \A i \in 1..Len(quickMatchQueue) : MapHas(players, quickMatchQueue[i])
  /\ \A g \in DOMAIN privateGames : MapHas(players, privateGames[g].host)

\* C35: a round resolves only between mutual current opponents: whenever a
\* game_result naming p as the opponent is sent to participant q,
\* matches[q] = p and matches[p] = q.
C35_ResultBetweenMutualOpponents ==
  [][\A i \in DOMAIN sent' :
       sent'[i].type = "game_result"
         => \E q \in DOMAIN players' :
              /\ players'[q].ws = sent'[i].to
              /\ MapGet(matches', q) = sent'[i].opponentName
              /\ MapGet(matches', sent'[i].opponentName) = q]_vars

====
